---- MODULE Spec2Model ----
(***************************************************************************)
(* zipfs: a read-only FUSE filesystem that presents the ZIP archives of a  *)
(* host directory as directories.  The model follows src/src/filesystem.rs *)
(* (struct ZipFs and its upcall handlers getattr_, lookup_, readdir_,      *)
(* readdir_zip, read_, open_zip).                                          *)
(*                                                                         *)
(* Strings are sequences of one-character strings, so that ends_with,      *)
(* starts_with, split('/') and strip_prefix are computed as the code       *)
(* computes them.  A path is a sequence of components (std::path::Path).   *)
(* Every upcall runs to completion before the next one starts: the         *)
(* handlers take &mut self and the session loop dispatches one request at  *)
(* a time, so one action is one whole upcall.                              *)
(***************************************************************************)
EXTENDS Integers, Sequences, FiniteSets, TLC

VARIABLES
    tree,        \* ZipFs.tree: the inode table, tree[i] is the path of inode i
    open_files,  \* ZipFs.open_files: the LRU cache, most recently used first
    cache_size,  \* the capacity given to ZipFs::new
    host,        \* the host directory of this mount, the paths looked up in it,
                 \* and whether its unreadable archive has been replaced (fixed)
    last,        \* the last upcall: its arguments and its reply
    uses         \* history: the archives the cache was asked for and gave, latest first

vars == <<tree, open_files, cache_size, host, last, uses>>

----------------------------------------------------------------------------
(* Bounds of the model *)

\* largest cache capacity a mount is configured with
MaxCache == 1

\* largest cache capacity of the mount with three archives
MaxLruCache == 2

\* largest number of components below data_dir of a classified path
MaxDepth == 3

\* largest file handle the kernel passes to read and release
MaxHandle == 1

\* largest number of names in the name table of a listed archive
MaxNames == 3
\* largest read offset the kernel sends
MaxOffset == 2
\* the read sizes the kernel sends are one byte and this buffer size
MaxSize == 2
\* the readdir offsets the kernel sends are 0 and this one
MaxDirOffset == 1
\* largest number of directory entries the reply buffer holds
MaxReply == 4

----------------------------------------------------------------------------
(* Strings *)

Min(S) == CHOOSE x \in S : \A y \in S : x <= y

\* str::ends_with
EndsWith(s, suffix) ==
    /\ Len(s) >= Len(suffix)
    /\ SubSeq(s, Len(s) - Len(suffix) + 1, Len(s)) = suffix

\* str::starts_with
StartsWith(s, prefix) ==
    /\ Len(s) >= Len(prefix)
    /\ SubSeq(s, 1, Len(prefix)) = prefix

\* a skip that drops nothing
SkipNone(s, n) == s

\* Iterator::skip(n)
Skip(s, n) == IF n >= Len(s) THEN <<>> ELSE SubSeq(s, n + 1, Len(s))

\* Iterator::take(n)
Take(s, n) == IF n >= Len(s) THEN s ELSE SubSeq(s, 1, n)

RECURSIVE SplitFrom(_, _, _)
\* str::split('/') continued: cur is the piece being read
SplitFrom(s, i, cur) ==
    IF i > Len(s) THEN <<cur>>
    ELSE IF s[i] = "/" THEN <<cur>> \o SplitFrom(s, i + 1, <<>>)
    ELSE SplitFrom(s, i + 1, Append(cur, s[i]))

\* str::split('/'): the pieces between slashes, empty pieces included
Split(s) == SplitFrom(s, 1, <<>>)

RECURSIVE JoinSlash(_)
\* Path::to_string_lossy of a relative path: its components joined by '/'
JoinSlash(path) ==
    IF path = <<>> THEN <<>>
    ELSE IF Len(path) = 1 THEN path[1]
    ELSE path[1] \o <<"/">> \o JoinSlash(Tail(path))

\* number of '/' characters of a string
SlashCount(s) == Cardinality({i \in 1..Len(s) : s[i] = "/"})

ZipExt == <<".", "z", "i", "p">>

----------------------------------------------------------------------------
(* The host directory (data_dir) and its archives *)

DataDir == << <<"r">> >>
SZip == <<"s">> \o ZipExt
CZip == <<"c">> \o ZipExt
BZip == <<"b">> \o ZipExt
PTxt == <<"p">>

\* whether data_dir holds an entry of that name in this mount
OnHost(name) == \E i \in 1..Len(host.entries) : host.entries[i] = name

\* the host directory tree under data_dir: kind, directory entries in host
\* order, file bytes, and the stat fields metadata_to_file_attrs copies
HostNode(path) ==
    CASE path = DataDir ->
            [kind |-> "dir", entries |-> host.entries, bytes |-> <<>>,
             st_ino |-> 100, perm |-> 493, mtime |-> 10, uid |-> 1000]
      [] path = DataDir \o <<SZip>> /\ OnHost(SZip) ->
            [kind |-> "file", entries |-> <<>>, bytes |-> <<90, 91, 1, 2, 91, 3, 99>>,
             st_ino |-> 101, perm |-> 420, mtime |-> 11, uid |-> 1000]
      [] path = DataDir \o <<PTxt>> /\ OnHost(PTxt) ->
            [kind |-> "file", entries |-> <<>>, bytes |-> <<7, 8>>,
             st_ino |-> 102, perm |-> 420, mtime |-> 12, uid |-> 1001]
      [] path = DataDir \o <<CZip>> /\ OnHost(CZip) ->
            [kind |-> "file", entries |-> <<>>, bytes |-> <<91, 11, 12, 91, 13, 91, 55, 99>>,
             st_ino |-> 103, perm |-> 384, mtime |-> 13, uid |-> 1000]
      [] path = DataDir \o <<BZip>> /\ OnHost(BZip) ->
            [kind |-> "file", entries |-> <<>>,
             bytes |-> IF host.fixed THEN <<91, 3, 99>> ELSE <<66, 66>>,
             st_ino |-> 104, perm |-> 420, mtime |-> 14, uid |-> 1002]
      [] OTHER ->
            [kind |-> "none", entries |-> <<>>, bytes |-> <<>>,
             st_ino |-> 0, perm |-> 0, mtime |-> 0, uid |-> 0]

\* the errno of a failed host path resolution: ENOTDIR when a proper prefix
\* of the path is not a directory, ENOENT when the last component is missing
HostErrno(path) ==
    IF \E n \in 1..(Len(path) - 1) : HostNode(SubSeq(path, 1, n)).kind # "dir"
    THEN IF \E n \in 1..(Len(path) - 1) : HostNode(SubSeq(path, 1, n)).kind = "file"
         THEN "ENOTDIR" ELSE "ENOENT"
    ELSE "ENOENT"

\* the central directory ZipArchive::new parses from an archive file, or
\* ok = FALSE when the file is not a readable ZIP.  An entry carries its flat
\* name, compression method, data offset, sizes and encryption flag.
Central(zip_path) ==
    CASE zip_path = DataDir \o <<SZip>> /\ OnHost(SZip) ->
            [ok |-> TRUE, entries |-> <<
              [name |-> <<"d", "/">>, method |-> "Stored", data_start |-> 2,
               compressed_size |-> 0, size |-> 0, encrypted |-> FALSE],
              [name |-> <<"d", "/", "f">>, method |-> "Stored", data_start |-> 2,
               compressed_size |-> 2, size |-> 2, encrypted |-> FALSE],
              [name |-> <<"g">>, method |-> "Stored", data_start |-> 5,
               compressed_size |-> 1, size |-> 1, encrypted |-> FALSE] >>]
      [] zip_path = DataDir \o <<CZip>> /\ OnHost(CZip) ->
            [ok |-> TRUE, entries |-> <<
              [name |-> <<"d", "/", "f">>, method |-> "Deflated", data_start |-> 1,
               compressed_size |-> 2, size |-> 2, encrypted |-> FALSE],
              [name |-> <<"g">>, method |-> "Deflated", data_start |-> 4,
               compressed_size |-> 1, size |-> 1, encrypted |-> FALSE],
              [name |-> <<"e">>, method |-> "Stored", data_start |-> 6,
               compressed_size |-> 1, size |-> 1, encrypted |-> TRUE] >>]
      [] zip_path = DataDir \o <<BZip>> /\ OnHost(BZip) /\ host.fixed ->
            [ok |-> TRUE, entries |-> <<
              [name |-> <<"g">>, method |-> "Stored", data_start |-> 1,
               compressed_size |-> 1, size |-> 1, encrypted |-> FALSE] >>]
      [] OTHER -> [ok |-> FALSE, entries |-> <<>>]

\* the decoder of a compressed member: the stream is not the content
Inflate(stream) == [i \in 1..Len(stream) |-> stream[i] - 10]

\* file bytes [start, start + n) of a host file, 0-based start; short at EOF
FileRange(bytes, start, n) == Take(Skip(bytes, start), n)

----------------------------------------------------------------------------
(* FileTree: the inode table (root inode 1 is data_dir) *)

FUSE_ROOT_ID == 1

\* FileTree::find_path_by_inode
find_path_by_inode(t, ino) ==
    IF ino \in 1..Len(t) THEN [found |-> TRUE, path |-> t[ino]]
    ELSE [found |-> FALSE, path |-> <<>>]

\* FileTree::find_inode_by_path
find_inode_by_path(t, path) ==
    IF \E i \in 1..Len(t) : t[i] = path
    THEN [found |-> TRUE, ino |-> Min({i \in 1..Len(t) : t[i] = path})]
    ELSE [found |-> FALSE, ino |-> 0]

\* FileTree::add_file: the new inode is the next free number
add_file(t, path) == [tree |-> Append(t, path), ino |-> Len(t) + 1]

\* an inode lookup that never finds the path: every call adds an entry
get_or_create_inode_always_new(t, path) == add_file(t, path)

\* ZipFs::get_or_create_inode
get_or_create_inode(t, path) ==
    LET hit == find_inode_by_path(t, path)
    IN  IF hit.found THEN [tree |-> t, ino |-> hit.ino] ELSE add_file(t, path)

----------------------------------------------------------------------------
(* Errors and host calls *)

\* map_io_error: the raw OS errno of the error, EIO when it carries none
\* (a ZipError converted to io::Error carries none)
map_io_error(os) == IF os = "none" THEN "EIO" ELSE os

\* map_ft: directories and regular files are known, anything else is ENOSYS
map_ft(kind) ==
    CASE kind = "dir" -> [ok |-> TRUE, err |-> "", kind |-> "Directory"]
      [] kind = "file" -> [ok |-> TRUE, err |-> "", kind |-> "RegularFile"]
      [] OTHER -> [ok |-> FALSE, err |-> "ENOSYS", kind |-> ""]

NoAttr == [ino |-> 0, size |-> 0, kind |-> "", perm |-> 0, mtime |-> 0, uid |-> 0]

\* a conversion that leaves the times at the epoch
metadata_to_file_attrs_no_times(path) ==
    LET node == HostNode(path)
        ft == map_ft(node.kind)
    IN  IF node.kind = "none"
        THEN [ok |-> FALSE, err |-> map_io_error(HostErrno(path)), attrs |-> NoAttr]
        ELSE IF ~ft.ok THEN [ok |-> FALSE, err |-> ft.err, attrs |-> NoAttr]
        ELSE [ok |-> TRUE, err |-> "",
              attrs |-> [ino |-> node.st_ino, size |-> Len(node.bytes), kind |-> ft.kind,
                         perm |-> node.perm, mtime |-> 0, uid |-> node.uid]]

\* fs::metadata followed by metadata_to_file_attrs: ino, size, kind, perm,
\* times and ownership are the host file's
metadata_to_file_attrs(path) ==
    LET node == HostNode(path)
        ft == map_ft(node.kind)
    IN  IF node.kind = "none"
        THEN [ok |-> FALSE, err |-> map_io_error(HostErrno(path)), attrs |-> NoAttr]
        ELSE IF ~ft.ok THEN [ok |-> FALSE, err |-> ft.err, attrs |-> NoAttr]
        ELSE [ok |-> TRUE, err |-> "",
              attrs |-> [ino |-> node.st_ino, size |-> Len(node.bytes), kind |-> ft.kind,
                         perm |-> node.perm, mtime |-> node.mtime, uid |-> node.uid]]

\* permission bits of a directory inside or at an archive (0o555)
DirPerm == 365
\* permission bits of a member file (0o444)
FilePerm == 292

----------------------------------------------------------------------------
(* Path classification *)

\* path.components().rev().collect()
RevComponents(path) == [i \in 1..Len(path) |-> path[Len(path) + 1 - i]]

\* the split at the first component, scanning from the root, that ends with
\* ".zip"
get_zip_paths_from_root(path) ==
    LET hits == {i \in 1..Len(path) : EndsWith(path[i], ZipExt)}
    IN  IF hits = {}
        THEN [some |-> FALSE, zip_path |-> <<>>, file_path |-> <<>>]
        ELSE LET index == Min(hits)
             IN  [some |-> TRUE,
                  zip_path |-> SubSeq(path, 1, index),
                  file_path |-> SubSeq(path, index + 1, Len(path))]

\* ZipFs::get_zip_paths: scanning from the leaf, the first component that
\* ends with ".zip" splits the path into the archive path and the inner path
get_zip_paths(path) ==
    LET components == RevComponents(path)
        hits == {i \in 1..Len(components) : EndsWith(components[i], ZipExt)}
    IN  IF hits = {}
        THEN [some |-> FALSE, zip_path |-> <<>>, file_path |-> <<>>]
        ELSE LET index == Min(hits)
             IN  [some |-> TRUE,
                  zip_path |-> RevComponents(SubSeq(components, index, Len(components))),
                  file_path |-> RevComponents(SubSeq(components, 1, index - 1))]

----------------------------------------------------------------------------
(* The archive cache *)

\* a get that finds the entry and leaves the order alone
LruPeek(cache, key) ==
    IF \E i \in 1..Len(cache) : cache[i].key = key
    THEN [hit |-> TRUE, handle |-> cache[CHOOSE i \in 1..Len(cache) : cache[i].key = key],
          cache |-> cache]
    ELSE [hit |-> FALSE, handle |-> [key |-> 0, zip |-> <<>>, pos |-> 0, dir |-> <<>>],
          cache |-> cache]

\* LruCache::get: a hit moves the entry to the most recently used end
LruGet(cache, key) ==
    IF \E i \in 1..Len(cache) : cache[i].key = key
    THEN LET i == Min({j \in 1..Len(cache) : cache[j].key = key})
         IN  [hit |-> TRUE, handle |-> cache[i],
              cache |-> <<cache[i]>> \o SubSeq(cache, 1, i - 1) \o SubSeq(cache, i + 1, Len(cache))]
    ELSE [hit |-> FALSE, handle |-> [key |-> 0, zip |-> <<>>, pos |-> 0, dir |-> <<>>], cache |-> cache]

\* a put that never evicts
LruPutUnbounded(cache, handle) == <<handle>> \o cache

\* LruCache::put of a key that is not cached: at capacity the least recently
\* used entry is dropped, then the new entry is the most recently used
LruPut(cache, handle) ==
    IF Len(cache) >= cache_size
    THEN <<handle>> \o SubSeq(cache, 1, cache_size - 1)
    ELSE <<handle>> \o cache

\* a clone that does not carry the parsed directory
CloneArchiveBare(handle) == [handle EXCEPT !.dir = <<>>]

\* ZipArchive::clone: the parsed directory (dir) and the descriptor are shared,
\* the clone has a cursor of its own that starts where the original stands
CloneArchive(handle) == handle

\* a parse failure reported to the caller as an error
ParseFailedAsError(cache, archive) ==
    [err |-> "EIO", some |-> FALSE,
     archive |-> [key |-> 0, zip |-> <<>>, pos |-> 0, dir |-> <<>>], cache |-> cache]

\* a parse failure that makes room in the cache before it is noticed
ParseFailedDropsLru(cache, archive) ==
    [err |-> "", some |-> FALSE,
     archive |-> [key |-> 0, zip |-> <<>>, pos |-> 0, dir |-> <<>>],
     cache |-> SubSeq(cache, 1, Len(cache) - 1)]

\* a parse failure that is remembered: the handle is cached as it is
ParseFailedRemembered(cache, archive) ==
    [err |-> "", some |-> FALSE,
     archive |-> [key |-> 0, zip |-> <<>>, pos |-> 0, dir |-> <<>>],
     cache |-> LruPut(cache, archive)]

\* open_zip when ZipArchive::new fails: the error is logged and the result is
\* Ok(None), the cache untouched
ParseFailed(cache, archive) ==
    [err |-> "", some |-> FALSE,
     archive |-> [key |-> 0, zip |-> <<>>, pos |-> 0, dir |-> <<>>], cache |-> cache]

\* ZipFs::open_zip.  err # "" is Err(errno); otherwise some says whether the
\* archive parsed; cache is open_files afterwards.
open_zip(t, cache, zip_path) ==
    LET found == find_inode_by_path(t, zip_path)
        got == LruGet(cache, found.ino)
        node == HostNode(zip_path)
        parsed == Central(zip_path)
        none == [key |-> 0, zip |-> <<>>, pos |-> 0, dir |-> <<>>]
        \* the reader stands at the end of the file when the parse is over
        archive == [key |-> found.ino, zip |-> zip_path, pos |-> Len(node.bytes),
                    dir |-> parsed.entries]
    IN  IF ~found.found
        THEN [err |-> "ENOENT", some |-> FALSE, archive |-> none, cache |-> cache]
        ELSE IF got.hit
        THEN [err |-> "", some |-> TRUE, archive |-> CloneArchive(got.handle), cache |-> got.cache]
        ELSE IF node.kind = "none"
        THEN [err |-> map_io_error(HostErrno(zip_path)), some |-> FALSE,
              archive |-> none, cache |-> cache]
        ELSE IF ~parsed.ok THEN ParseFailed(cache, archive)
        ELSE [err |-> "", some |-> TRUE, archive |-> archive,
              cache |-> LruPut(cache, CloneArchive(archive))]

\* ZipArchive::by_name on the archive's parsed directory: the entry of that
\* exact name; an encrypted entry cannot be opened without a password
by_name(archive, name) ==
    LET entries == archive.dir
        hits == {i \in 1..Len(entries) : entries[i].name = name}
        none == [name |-> <<>>, method |-> "", data_start |-> 0,
                 compressed_size |-> 0, size |-> 0, encrypted |-> FALSE]
    IN  IF hits = {} THEN [ok |-> FALSE, err |-> "FileNotFound", entry |-> none]
        ELSE LET e == entries[CHOOSE i \in hits : \A j \in hits : j <= i]
             IN  IF e.encrypted
                 THEN [ok |-> FALSE, err |-> "UnsupportedArchive", entry |-> none]
                 ELSE [ok |-> TRUE, err |-> "", entry |-> e]

\* ZipFile::is_dir: the entry's name ends with a slash
is_dir(entry) == EndsWith(entry.name, <<"/">>)

----------------------------------------------------------------------------
(* getattr and lookup *)

\* a member lookup that failed taken for a file
MemberIsDirDefaultFalse(member) == IF member.ok THEN is_dir(member.entry) ELSE FALSE

\* by_name(..).map(|entry| entry.is_dir()).unwrap_or(true): a name that
\* cannot be opened counts as a directory
MemberIsDir(member) == IF member.ok THEN is_dir(member.entry) ELSE TRUE

\* ZipFs::get_data_path
get_data_path(t, ino) ==
    LET hit == find_path_by_inode(t, ino)
    IN  IF hit.found THEN [ok |-> TRUE, err |-> "", path |-> hit.path]
        ELSE [ok |-> FALSE, err |-> "ENOENT", path |-> <<>>]

\* the reply of a failed upcall, the state left as given
Fail(errno, t, cache) ==
    [ok |-> FALSE, err |-> errno, attrs |-> NoAttr, data |-> <<>>, entries |-> <<>>,
     tree |-> t, cache |-> cache]

\* ZipFs::getattr_
getattr_(t, cache, ino) ==
    LET p == get_data_path(t, ino)
        zp == get_zip_paths(p.path)
        md == metadata_to_file_attrs(IF zp.some THEN zp.zip_path ELSE p.path)
        attrs == [md.attrs EXCEPT !.ino = ino]
        oz == open_zip(t, cache, zp.zip_path)
        member == by_name(CloneArchive(oz.archive), JoinSlash(zp.file_path))
        dir == MemberIsDir(member)
        ok(a, c) == [ok |-> TRUE, err |-> "", attrs |-> a, data |-> <<>>,
                     entries |-> <<>>, tree |-> t, cache |-> c]
    IN  IF ~p.ok THEN Fail(p.err, t, cache)
        ELSE IF ~md.ok THEN Fail(md.err, t, cache)
        ELSE IF ~zp.some THEN ok(attrs, cache)
        ELSE IF oz.err # "" THEN Fail(oz.err, t, oz.cache)
        ELSE IF ~oz.some
        THEN ok([attrs EXCEPT !.kind = "Directory", !.perm = DirPerm], oz.cache)
        ELSE IF dir
        THEN ok([attrs EXCEPT !.kind = "Directory", !.perm = DirPerm], oz.cache)
        ELSE ok([attrs EXCEPT !.kind = "RegularFile", !.perm = FilePerm], oz.cache)

\* ZipFs::lookup_: the inode of parent/name is created, then getattr_ runs
lookup_(t, cache, parent, name) ==
    LET p == get_data_path(t, parent)
        made == get_or_create_inode(t, Append(p.path, name))
    IN  IF ~p.ok THEN Fail(p.err, t, cache)
        ELSE getattr_(made.tree, cache, made.ino)

----------------------------------------------------------------------------
(* read *)

\* a successful read reply
Data(bytes, t, cache) ==
    [ok |-> TRUE, err |-> "", attrs |-> NoAttr, data |-> bytes, entries |-> <<>>,
     tree |-> t, cache |-> cache]

\* a seek relative to where the reader stands
SeekCurrent(pos, target) == pos + target

\* Seek::seek(SeekFrom::Start(target)) on a reader standing at pos
SeekStart(pos, target) == target

\* a read size that is not clamped to the member's end
ClampSizeNone(size, entry_size, offset) == size

\* min(size, entry.size().saturating_sub(offset))
ClampSize(size, entry_size, offset) ==
    LET left == IF entry_size >= offset THEN entry_size - offset ELSE 0
    IN  IF size <= left THEN size ELSE left

\* Read::read_exact of n bytes at pos: all n bytes or an UnexpectedEof error,
\* which carries no OS errno
read_exact(bytes, pos, n) ==
    IF pos + n <= Len(bytes) \/ n = 0
    THEN [ok |-> TRUE, err |-> "", data |-> FileRange(bytes, pos, n)]
    ELSE [ok |-> FALSE, err |-> map_io_error("none"), data |-> <<>>]

\* the uncompressed byte stream of an opened member: by_name has placed the
\* archive's reader at data_start, limited to compressed_size bytes
EntryBytes(archive, entry) ==
    LET raw == FileRange(HostNode(archive.zip).bytes, entry.data_start, entry.compressed_size)
    IN  IF entry.method = "Stored" THEN raw ELSE Inflate(raw)

\* the member read of a handler whose readers share the cached cursor: a
\* read at offset 0 seeks to the member's data, a later read continues from
\* where the previous read on that archive stopped
ReadZipSharedCursor(t, cache, archive, file_path, offset, size) ==
    LET member == by_name(archive, JoinSlash(file_path))
        entry == member.entry
        shared == cache[1]
        at == IF offset = 0 THEN entry.data_start ELSE shared.pos
        raw == FileRange(HostNode(archive.zip).bytes, at, ClampSize(size, entry.size, offset))
        got == IF entry.method = "Stored" THEN raw ELSE Inflate(raw)
    IN  IF ~member.ok THEN Fail(map_io_error("none"), t, cache)
        ELSE Data(got, t, <<[shared EXCEPT !.pos = at + Len(got)]>> \o Tail(cache))

\* ZipFs::read_, the branch of a parsed archive: the member is located by its
\* inner path, the size is clamped to what is left after offset, and the
\* bytes come from a seek on a private clone (Stored) or from decoding the
\* member from its start (any other method)
ReadZip(t, cache, archive, file_path, offset, size) ==
    LET file == CloneArchive(archive)
        member == by_name(archive, JoinSlash(file_path))
        entry == member.entry
        n == ClampSize(size, entry.size, offset)
        at == SeekStart(file.pos, offset + entry.data_start)
        buf == read_exact(HostNode(file.zip).bytes, at, n)
    IN  IF ~member.ok THEN Fail(map_io_error("none"), t, cache)
        ELSE IF entry.method = "Stored"
        THEN IF buf.ok THEN Data(buf.data, t, cache) ELSE Fail(buf.err, t, cache)
        ELSE Data(Take(Skip(EntryBytes(archive, entry), offset), n), t, cache)

\* fs::read of a host path: the whole file, or the OS errno
fs_read(path) ==
    LET node == HostNode(path)
    IN  CASE node.kind = "file" -> [ok |-> TRUE, err |-> "", bytes |-> node.bytes]
          [] node.kind = "dir" -> [ok |-> FALSE, err |-> "EISDIR", bytes |-> <<>>]
          [] OTHER -> [ok |-> FALSE, err |-> HostErrno(path), bytes |-> <<>>]

\* ZipFs::read_
read_(t, cache, ino, offset, size) ==
    LET p == get_data_path(t, ino)
        zp == get_zip_paths(p.path)
        oz == open_zip(t, cache, zp.zip_path)
        after == IF zp.some THEN oz.cache ELSE cache
        whole == fs_read(p.path)
    IN  IF ~p.ok THEN Fail(p.err, t, cache)
        ELSE IF zp.some /\ oz.err # "" THEN Fail(oz.err, t, oz.cache)
        ELSE IF zp.some /\ oz.some
        THEN ReadZip(t, oz.cache, oz.archive, zp.file_path, offset, size)
        ELSE IF ~whole.ok THEN Fail(map_io_error(whole.err), t, after)
        ELSE Data(Take(Skip(whole.bytes, offset), size), t, after)

----------------------------------------------------------------------------
(* readdir *)

\* a successful readdir reply
Listing(entries, t, cache) ==
    [ok |-> TRUE, err |-> "", attrs |-> NoAttr, data |-> <<>>, entries |-> entries,
     tree |-> t, cache |-> cache]

RECURSIVE Dedup(_)
\* Vec::dedup: consecutive repeated elements are removed
Dedup(s) ==
    IF Len(s) <= 1 THEN s
    ELSE IF s[1] = s[2] THEN Dedup(Tail(s))
    ELSE <<s[1]>> \o Dedup(Tail(s))

RECURSIVE InsertByLen(_, _)
\* x placed after every element that is not longer than it
InsertByLen(sorted, x) ==
    IF sorted = <<>> THEN <<x>>
    ELSE IF Len(sorted[1]) <= Len(x) THEN <<sorted[1]>> \o InsertByLen(Tail(sorted), x)
    ELSE <<x>> \o sorted

RECURSIVE SortByLen(_)
\* sort_by_key(|name| name.len()): stable, shortest first
SortByLen(s) ==
    IF s = <<>> THEN <<>>
    ELSE InsertByLen(SortByLen(SubSeq(s, 1, Len(s) - 1)), s[Len(s)])

\* ZipFile::enclosed_name: the name as a relative path, None when it would
\* leave the archive root
enclosed_name(name) ==
    LET pieces == Split(name)
        comps == SelectSeq(pieces, LAMBDA c : c # <<>> /\ c # <<".">>)
    IN  IF StartsWith(name, <<"/">>) \/ \E i \in 1..Len(pieces) : pieces[i] = <<".", ".">>
        THEN [some |-> FALSE, path |-> <<>>]
        ELSE [some |-> TRUE, path |-> comps]

\* the child names readdir_zip collects: every name of the archive that
\* starts with the directory prefix gives its piece number slash_count
ChildNames(archive, file_path) ==
    LET joined == JoinSlash(file_path) \o <<"/">>
        file_string == IF StartsWith(joined, <<"/">>) THEN Tail(joined) ELSE joined
        slash_count == SlashCount(file_string)
        names == [i \in 1..Len(archive.dir) |-> archive.dir[i].name]
        under == SelectSeq(names, LAMBDA name :
                    StartsWith(name, file_string) /\ Len(Split(name)) > slash_count)
        file_names == [i \in 1..Len(under) |-> Split(under[i])[slash_count + 1]]
    IN  SortByLen(Dedup(file_names))

RECURSIVE ZipEntries(_, _, _, _, _, _, _, _)
\* the loop of readdir_zip from position i on: a name that is no member of
\* its own is added as a directory under the listed inode; a member gets an
\* inode and is added as a regular file; a full reply buffer ends the loop
ZipEntries(file_names, i, t, out, cap, ino, archive, zip_path) ==
    IF i > Len(file_names) THEN [tree |-> t, entries |-> out]
    ELSE
      LET name == file_names[i]
          member == by_name(archive, name)
          file_name == enclosed_name(member.entry.name)
          made == get_or_create_inode(t, zip_path \o file_name.path)
      IN  IF ~member.ok
          THEN IF Len(out) >= cap THEN [tree |-> t, entries |-> out]
               ELSE ZipEntries(file_names, i + 1, t,
                        Append(out, [ino |-> ino, offset |-> i, kind |-> "Directory",
                                     name |-> name]),
                        cap, ino, archive, zip_path)
          ELSE IF ~file_name.some
          THEN ZipEntries(file_names, i + 1, t, out, cap, ino, archive, zip_path)
          ELSE IF Len(out) >= cap THEN [tree |-> made.tree, entries |-> out]
          ELSE ZipEntries(file_names, i + 1, made.tree,
                   Append(out, [ino |-> made.ino, offset |-> i, kind |-> "RegularFile",
                                name |-> JoinSlash(file_name.path)]),
                   cap, ino, archive, zip_path)

\* ZipFs::readdir_zip
readdir_zip(t, cache, ino, offset, zip_path, file_path, cap) ==
    LET oz == open_zip(t, cache, zip_path)
        loop == ZipEntries(ChildNames(oz.archive, file_path), 1, t, <<>>, cap, ino,
                           oz.archive, zip_path)
    IN  IF offset # 0 THEN Listing(<<>>, t, cache)
        ELSE IF oz.err # "" THEN Fail(oz.err, t, oz.cache)
        ELSE IF ~oz.some THEN Listing(<<>>, t, oz.cache)
        ELSE Listing(loop.entries, loop.tree, oz.cache)

RECURSIVE HostEntriesFromOne(_, _, _, _, _, _, _)
\* the loop of a readdir whose offsets restart at 1 in every call
HostEntriesFromOne(entries, i, t, out, cap, path, offset) ==
    IF i > Len(entries) THEN [err |-> "", tree |-> t, entries |-> out]
    ELSE
      LET file_name == entries[i]
          file_type == map_ft(HostNode(Append(path, file_name)).kind)
          made == get_or_create_inode(t, Append(path, file_name))
      IN  IF ~file_type.ok THEN [err |-> file_type.err, tree |-> t, entries |-> out]
          ELSE IF Len(out) >= cap THEN [err |-> "", tree |-> made.tree, entries |-> out]
          ELSE HostEntriesFromOne(entries, i + 1, made.tree,
                   Append(out, [ino |-> made.ino, offset |-> i,
                                kind |-> file_type.kind, name |-> file_name]),
                   cap, path, offset)

RECURSIVE HostEntries(_, _, _, _, _, _, _)
\* the loop of readdir_ over the host entries left after skip(offset): each
\* entry gets an inode and is added with its host file type
HostEntries(entries, i, t, out, cap, path, offset) ==
    IF i > Len(entries) THEN [err |-> "", tree |-> t, entries |-> out]
    ELSE
      LET file_name == entries[i]
          file_type == map_ft(HostNode(Append(path, file_name)).kind)
          made == get_or_create_inode(t, Append(path, file_name))
      IN  IF ~file_type.ok THEN [err |-> file_type.err, tree |-> t, entries |-> out]
          ELSE IF Len(out) >= cap THEN [err |-> "", tree |-> made.tree, entries |-> out]
          ELSE HostEntries(entries, i + 1, made.tree,
                   Append(out, [ino |-> made.ino, offset |-> offset + i,
                                kind |-> file_type.kind, name |-> file_name]),
                   cap, path, offset)

\* ZipFs::readdir_
readdir_(t, cache, ino, offset, cap) ==
    LET p == get_data_path(t, ino)
        zp == get_zip_paths(p.path)
        node == HostNode(p.path)
        loop == HostEntries(Skip(node.entries, offset), 1, t, <<>>, cap, p.path, offset)
    IN  IF ~p.ok THEN Fail(p.err, t, cache)
        ELSE IF zp.some
        THEN readdir_zip(t, cache, ino, offset, zp.zip_path, zp.file_path, cap)
        ELSE IF node.kind = "none" THEN Fail(map_io_error(HostErrno(p.path)), t, cache)
        ELSE IF node.kind # "dir" THEN Fail("ENOTDIR", t, cache)
        ELSE IF loop.err # "" THEN Fail(loop.err, loop.tree, cache)
        ELSE Listing(loop.entries, loop.tree, cache)

----------------------------------------------------------------------------
(* The upcalls *)

\* the archive an upcall asks the cache for and gets: the upcall is about a
\* known inode whose path lies at or below a readable archive (a readdir
\* opens the archive at offset 0 only); <<>> when it gets none
Opens(op, ino, name, offset) ==
    LET path == IF ino \notin 1..Len(tree) THEN <<>>
                ELSE IF op = "lookup" THEN Append(tree[ino], name) ELSE tree[ino]
        zp == get_zip_paths(path)
    IN  IF /\ zp.some
           /\ HostNode(zp.zip_path).kind = "file" /\ Central(zp.zip_path).ok
           /\ (op = "readdir" => offset = 0)
        THEN zp.zip_path ELSE <<>>

\* the archives in the order of their last get, latest first
Used(archive) ==
    IF archive = <<>> THEN uses
    ELSE <<archive>> \o SelectSeq(uses, LAMBDA used : used # archive)

Reply(r) == [ok |-> r.ok, err |-> r.err, attrs |-> r.attrs, data |-> r.data,
             entries |-> r.entries]

NoReply == [ok |-> TRUE, err |-> "", attrs |-> NoAttr, data |-> <<>>, entries |-> <<>>]

\* the mounts of the model: the entries of data_dir in host order, and the
\* paths the kernel looks up.  One archive navigated down to a member (stored,
\* then compressed), two archives sharing the cache, and an unparseable
\* archive beside a host file.
Hosts ==
    { [entries |-> <<SZip>>, fixed |-> FALSE,
       lookups |-> { DataDir \o <<SZip>>, DataDir \o <<SZip, <<"d">> >>,
                     DataDir \o <<SZip, <<"d">>, <<"f">> >>, DataDir \o <<SZip, <<"m">> >> }],
      [entries |-> <<CZip>>, fixed |-> FALSE,
       lookups |-> { DataDir \o <<CZip>>, DataDir \o <<CZip, <<"d">> >>,
                     DataDir \o <<CZip, <<"d">>, <<"f">> >>, DataDir \o <<CZip, <<"e">> >> }],
      [entries |-> <<SZip, CZip>>, fixed |-> FALSE,
       lookups |-> { DataDir \o <<SZip>>, DataDir \o <<CZip>>,
                     DataDir \o <<SZip, <<"g">> >>, DataDir \o <<CZip, <<"g">> >> }],
      [entries |-> <<BZip, PTxt>>, fixed |-> FALSE,
       lookups |-> { DataDir \o <<BZip>>, DataDir \o <<BZip, <<"d">> >>,
                     DataDir \o <<PTxt>>, DataDir \o << <<"q">> >> }] }

\* ZipFs::new: an empty cache of the given capacity and a tree holding data_dir
Init ==
    /\ tree = <<DataDir>>
    /\ open_files = <<>>
    /\ cache_size \in 1..MaxCache
    /\ host \in Hosts
    /\ last = [op |-> "mount", ino |-> 0, name |-> <<>>, offset |-> 0, size |-> 0,
               cap |-> 0, reply |-> NoReply]
    /\ uses = <<>>

Done(op, ino, name, offset, size, cap, r) ==
    /\ tree' = r.tree
    /\ open_files' = r.cache
    /\ last' = [op |-> op, ino |-> ino, name |-> name, offset |-> offset, size |-> size,
                cap |-> cap, reply |-> Reply(r)]
    /\ uses' = Used(Opens(op, ino, name, offset))
    /\ UNCHANGED <<cache_size, host>>

\* Filesystem::getattr
Getattr ==
    \E ino \in 1..(Len(tree) + 1) :
        Done("getattr", ino, <<>>, 0, 0, 0, getattr_(tree, open_files, ino))

\* Filesystem::lookup
Lookup ==
    \E parent \in 1..Len(tree) : \E path \in host.lookups :
        /\ Len(path) = Len(tree[parent]) + 1
        /\ SubSeq(path, 1, Len(tree[parent])) = tree[parent]
        /\ Done("lookup", parent, path[Len(path)], 0, 0, 0,
                lookup_(tree, open_files, parent, path[Len(path)]))

\* Filesystem::readdir
Readdir ==
    \E ino \in 1..(Len(tree) + 1) : \E offset \in {0, MaxDirOffset} : \E cap \in {1, MaxReply} :
        Done("readdir", ino, <<>>, offset, 0, cap, readdir_(tree, open_files, ino, offset, cap))

\* Filesystem::read
Read ==
    \E ino \in 1..(Len(tree) + 1) : \E offset \in 0..MaxOffset : \E size \in {1, MaxSize} :
        Done("read", ino, <<>>, offset, size, 0, read_(tree, open_files, ino, offset, size))

Next == Getattr \/ Lookup \/ Readdir \/ Read

Spec == Init /\ [][Next]_vars

----------------------------------------------------------------------------
(* What the upcalls are expected to return, stated without the handlers *)

\* the path the last upcall was about
TargetPath ==
    IF last.ino \notin 1..Len(tree) THEN <<>>
    ELSE IF last.op = "lookup" THEN Append(tree[last.ino], last.name)
    ELSE tree[last.ino]

\* the position of the first component, from the root, that ends in ".zip"
\* (0 when there is none)
Pivot(path) ==
    LET hits == {i \in 1..Len(path) : EndsWith(path[i], ZipExt)}
    IN  IF hits = {} THEN 0 ELSE Min(hits)

ArchiveOf(path) == SubSeq(path, 1, Pivot(path))
InnerOf(path) == SubSeq(path, Pivot(path) + 1, Len(path))

\* the path lies at or below an archive file that exists on the host
AtArchive(path) == Pivot(path) > 0 /\ HostNode(ArchiveOf(path)).kind = "file"
InArchive(path) == AtArchive(path) /\ InnerOf(path) # <<>>
Parseable(path) == Central(ArchiveOf(path)).ok

\* the uncompressed content of the members, as a reference unzip gives it
Content(name) ==
    CASE name = <<"d", "/", "f">> -> <<1, 2>>
      [] name = <<"g">> -> <<3>>
      [] OTHER -> <<>>

\* the entries of the archive whose flat name is the inner path
MembersAt(path) ==
    LET entries == Central(ArchiveOf(path)).entries
    IN  {entries[i] : i \in {j \in 1..Len(entries) : entries[j].name = JoinSlash(InnerOf(path))}}

\* the inner path names a member file whose content can be read
ReadableFile(path) ==
    /\ InArchive(path) /\ Parseable(path)
    /\ \E e \in MembersAt(path) : ~e.encrypted /\ ~EndsWith(e.name, <<"/">>)

\* bytes [offset, min(offset + size, Len(b))) of b
Range(b, offset, size) ==
    LET hi == IF offset + size <= Len(b) THEN offset + size ELSE Len(b)
    IN  [i \in 1..(IF hi > offset THEN hi - offset ELSE 0) |-> b[offset + i]]

ReadOf(path) == last.op = "read" /\ last.ino \in 1..Len(tree) /\ TargetPath = path

----------------------------------------------------------------------------
(* C1 *)

\* C1: after any sequence of getattr, lookup, readdir and read upcalls the
\* cache never holds more archive handles than the configured cache_size.
C1_CacheBounded == Len(open_files) <= cache_size

\* two archives have been opened through their members and the cache is full
C1_Witness ==
    /\ Len(open_files) = cache_size
    /\ last.op = "read" /\ last.reply.ok
    /\ \E i, j \in 1..Len(tree) :
          /\ ReadableFile(tree[i]) /\ ReadableFile(tree[j])
          /\ ArchiveOf(tree[i]) # ArchiveOf(tree[j])

----------------------------------------------------------------------------
(* C2 *)

\* the request of an upcall run alone: same inode table, nothing cached
Alone(t, req) ==
    IF req.op = "read" THEN Reply(read_(t, <<>>, req.ino, req.offset, req.size))
    ELSE Reply(readdir_(t, <<>>, req.ino, req.offset, req.cap))

\* C2: in every order in which the session serves requests, a read or a
\* readdir replies what it replies when it is the only request served: what
\* earlier requests left in the cache (handles, reader positions) is not seen.
C2_NoInterference ==
    [][last'.op \in {"read", "readdir"} => last'.reply = Alone(tree, last')]_vars

\* a member is read in full after a readdir of the same archive gave its
\* sibling an inode
C2_Witness ==
    /\ ReadOf(DataDir \o <<SZip, <<"d">>, <<"f">> >>)
    /\ last.reply.ok /\ last.reply.data = <<1, 2>>
    /\ \E i \in 1..Len(tree) : tree[i] = DataDir \o <<SZip, <<"g">> >>

----------------------------------------------------------------------------
(* C3 *)

\* C3: a read of a member file with content B replies exactly
\* B[offset .. min(offset + size, len(B))), through the stored branch and
\* through the compressed branch alike.
C3_ReadMember ==
    (last.op = "read" /\ last.ino \in 1..Len(tree) /\ ReadableFile(TargetPath)) =>
        /\ last.reply.ok
        /\ last.reply.data = Range(Content(JoinSlash(InnerOf(TargetPath))), last.offset, last.size)

\* a compressed member read from the middle
C3_Witness ==
    /\ ReadOf(DataDir \o <<CZip, <<"d">>, <<"f">> >>)
    /\ last.offset = 1 /\ last.size = 2
    /\ last.reply.ok /\ last.reply.data = <<2>>

----------------------------------------------------------------------------
(* C4 *)

\* the length of the file at a path: a host file's, or a member's content
FileLength(path) ==
    IF Pivot(path) = 0 THEN Len(HostNode(path).bytes)
    ELSE Len(Content(JoinSlash(InnerOf(path))))

IsFile(path) ==
    IF Pivot(path) = 0 THEN HostNode(path).kind = "file" ELSE ReadableFile(path)

\* C4: a read of a file of length L succeeds and replies exactly
\* min(size, max(0, L - offset)) bytes.
C4_ReadLength ==
    (last.op = "read" /\ last.ino \in 1..Len(tree) /\ IsFile(TargetPath)) =>
        LET L == FileLength(TargetPath)
            left == IF L >= last.offset THEN L - last.offset ELSE 0
        IN  /\ last.reply.ok
            /\ Len(last.reply.data) = (IF last.size <= left THEN last.size ELSE left)

\* a stored member read across its end: offset + size > L
C4_Witness ==
    /\ ReadOf(DataDir \o <<SZip, <<"d">>, <<"f">> >>)
    /\ last.offset = 1 /\ last.size = 2
    /\ last.reply.ok /\ Len(last.reply.data) = 1

----------------------------------------------------------------------------
(* C5 *)

\* the last upcall was op on a known inode
Did(op) == last.op = op /\ last.ino \in 1..Len(tree)

\* the path is an archive file of the host that does not parse
BrokenArchive(path) == AtArchive(path) /\ InnerOf(path) = <<>> /\ ~Parseable(path)

\* C5: for an archive whose host file exists but does not parse, getattr
\* succeeds with kind Directory and perm 0o555, and readdir succeeds with an
\* empty listing; neither returns an error.
C5_BrokenArchiveIsEmptyDir ==
    /\ ((Did("getattr") \/ Did("lookup")) /\ BrokenArchive(TargetPath)) =>
          /\ last.reply.ok
          /\ last.reply.attrs.kind = "Directory"
          /\ last.reply.attrs.perm = DirPerm
    /\ (Did("readdir") /\ BrokenArchive(TargetPath)) =>
          /\ last.reply.ok
          /\ last.reply.entries = <<>>

\* the unparseable archive is listed from offset 0
C5_Witness ==
    /\ Did("readdir") /\ TargetPath = DataDir \o <<BZip>>
    /\ last.offset = 0 /\ last.reply.ok /\ last.reply.entries = <<>>

----------------------------------------------------------------------------
(* C6 *)

\* C6: getattr of a path inside an archive reports RegularFile with perm
\* 0o444 exactly when the inner path is a readable member file; otherwise
\* (directory, no such member, encrypted member, unparseable archive) it
\* reports Directory with perm 0o555, and it never fails.
C6_KindInsideArchive ==
    ((Did("getattr") \/ Did("lookup")) /\ InArchive(TargetPath)) =>
        /\ last.reply.ok
        /\ IF ReadableFile(TargetPath)
           THEN last.reply.attrs.kind = "RegularFile" /\ last.reply.attrs.perm = FilePerm
           ELSE last.reply.attrs.kind = "Directory" /\ last.reply.attrs.perm = DirPerm

\* an encrypted member of a parseable archive is reported as a directory
C6_Witness ==
    /\ Did("getattr") /\ TargetPath = DataDir \o <<CZip, <<"e">> >>
    /\ last.reply.ok /\ last.reply.attrs.kind = "Directory"

----------------------------------------------------------------------------
(* C7 *)

\* a member name as path components: its non-empty pieces
Components(name) == SelectSeq(Split(name), LAMBDA c : c # <<>>)

\* the immediate children of directory inner: the component right after
\* inner of every member name that lies under it
Children(zip_path, inner) ==
    LET entries == Central(zip_path).entries
    IN  { Components(entries[i].name)[Len(inner) + 1] :
            i \in { j \in 1..Len(entries) :
                      /\ Len(Components(entries[j].name)) > Len(inner)
                      /\ SubSeq(Components(entries[j].name), 1, Len(inner)) = inner } }

\* the names of the last reply's entries
Emitted == { last.reply.entries[i].name : i \in 1..Len(last.reply.entries) }

\* the reply buffer took every entry the handler added
Fitted == Len(last.reply.entries) < last.cap

\* C7: readdir at offset 0 of a directory of a parseable archive emits exactly
\* the immediate children of the directory, and no empty name.
C7_ExactChildren ==
    (Did("readdir") /\ AtArchive(TargetPath) /\ Parseable(TargetPath)
        /\ last.offset = 0 /\ Fitted) =>
        /\ last.reply.ok
        /\ Emitted = Children(ArchiveOf(TargetPath), InnerOf(TargetPath))

----------------------------------------------------------------------------
(* C8 *)

\* the kind of a host entry as the host reports it
HostKind(path) == IF HostNode(path).kind = "dir" THEN "Directory" ELSE "RegularFile"

HostDir(path) == Pivot(path) = 0 /\ HostNode(path).kind = "dir"

\* C8: readdir of a host directory emits every entry whose name ends in
\* ".zip" as a Directory and every other entry with its host file type.
C8_ZipEntriesAreDirs ==
    (Did("readdir") /\ HostDir(TargetPath) /\ last.reply.ok) =>
        \A i \in 1..Len(last.reply.entries) :
            LET e == last.reply.entries[i]
            IN  IF EndsWith(e.name, ZipExt) THEN e.kind = "Directory"
                ELSE e.kind = HostKind(Append(TargetPath, e.name))

----------------------------------------------------------------------------
(* C9 *)

\* the names of the last reply's entries, in order
EmittedNames == [i \in 1..Len(last.reply.entries) |-> last.reply.entries[i].name]

\* C9: on a path with no ".zip" component, readdir emits the names of the
\* host directory in host order (from the requested offset, as many as the
\* reply buffer holds) and read returns the host file's bytes in the
\* requested range.
C9_Passthrough ==
    /\ (Did("readdir") /\ HostDir(TargetPath)) =>
          /\ last.reply.ok
          /\ EmittedNames = Take(Skip(HostNode(TargetPath).entries, last.offset), last.cap)
    /\ (Did("read") /\ Pivot(TargetPath) = 0 /\ HostNode(TargetPath).kind = "file") =>
          /\ last.reply.ok
          /\ last.reply.data = Range(HostNode(TargetPath).bytes, last.offset, last.size)

\* the host directory is listed in full, in host order
C9_Witness ==
    /\ Did("readdir") /\ TargetPath = DataDir /\ last.offset = 0
    /\ last.reply.ok /\ EmittedNames = <<BZip, PTxt>>

----------------------------------------------------------------------------
(* C10 *)

\* C10: a read inside an archive fails with ENOENT, and with nothing else,
\* when the archive does not parse and when it has no member of that name.
C10_ReadMissingIsENOENT ==
    (Did("read") /\ InArchive(TargetPath)
        /\ (~Parseable(TargetPath) \/ MembersAt(TargetPath) = {})) =>
        /\ ~last.reply.ok
        /\ last.reply.err = "ENOENT"

----------------------------------------------------------------------------
(* The cache over three archives, one of them replaced while mounted *)

\* a mount with two readable archives and an unreadable one
LruHost ==
    [entries |-> <<SZip, CZip, BZip>>, fixed |-> FALSE,
     lookups |-> { DataDir \o <<SZip>>, DataDir \o <<CZip>>, DataDir \o <<BZip>>,
                   DataDir \o <<BZip, <<"g">> >> }]

\* the mount after the kernel has listed its root: readdir_ has given the
\* three archives their inodes and has opened none of them
InitLru ==
    /\ tree = <<DataDir, DataDir \o <<SZip>>, DataDir \o <<CZip>>, DataDir \o <<BZip>> >>
    /\ open_files = <<>>
    /\ cache_size \in 1..MaxLruCache
    /\ host = LruHost
    /\ last = [op |-> "mount", ino |-> 0, name |-> <<>>, offset |-> 0, size |-> 0,
               cap |-> 0, reply |-> NoReply]
    /\ uses = <<>>

\* the host replaces the unreadable archive by a readable one, after a
\* getattr or lookup has found it unreadable
Repair ==
    /\ ~host.fixed
    /\ Did("getattr") \/ Did("lookup")
    /\ TargetPath = DataDir \o <<BZip>>
    /\ last.reply.ok
    /\ host' = [host EXCEPT !.fixed = TRUE]
    /\ last' = [op |-> "repair", ino |-> 0, name |-> <<>>, offset |-> 0, size |-> 0,
                cap |-> 0, reply |-> NoReply]
    /\ UNCHANGED <<tree, open_files, cache_size, uses>>

\* the upcalls that go through the cache by inode alone, and the host
NextLru == Getattr \/ Lookup \/ Read \/ Repair

SpecLru == InitLru /\ [][NextLru]_vars

----------------------------------------------------------------------------
(* C11 *)

\* C11: an upcall on an archive whose parse fails leaves the cache exactly
\* as it was (same handles in the same order), and after every step every
\* cached handle is the parsed directory of an archive that parses.
C11_FailedParseKeepsCache ==
    [][ /\ (AtArchive(TargetPath') /\ ~Parseable(TargetPath')) => open_files' = open_files
        /\ \A i \in 1..Len(open_files') :
              /\ Central(open_files'[i].zip).ok
              /\ open_files'[i].dir = Central(open_files'[i].zip).entries ]_vars

\* the unreadable archive has been asked for while the cache was full
C11_Witness ==
    /\ Did("getattr") /\ TargetPath = DataDir \o <<BZip>> /\ ~host.fixed
    /\ cache_size = 2 /\ Len(open_files) = 2

----------------------------------------------------------------------------
(* C12 *)

\* the archives of the cached handles, most recently used first
Cached == [i \in 1..Len(open_files) |-> open_files[i].zip]

\* C12: the cache holds exactly the cache_size archives of the latest gets,
\* in the order of their last get: a hit makes its archive the most recent,
\* an insertion into a full cache evicts the archive whose last get is the
\* oldest, and nothing else leaves the cache.
C12_LruOrder == Cached = Take(uses, cache_size)

\* three archives have been got, the two of the latest gets are cached and
\* the oldest was evicted
C12_Witness ==
    /\ cache_size = 2 /\ Len(uses) = 3
    /\ Cached = <<uses[1], uses[2]>>
    /\ uses[3] = DataDir \o <<CZip>>

----------------------------------------------------------------------------
(* C13 *)

\* C13: whatever happened before (a failed parse, an eviction), an upcall on
\* an archive whose host file parses now ends with that archive cached as the
\* most recent entry with the directory of the file as it is now, and a
\* member file of it is reported as a file.
C13_FailureNotRemembered ==
    [][ /\ LET archive == Opens(last'.op, last'.ino, last'.name, last'.offset)
           IN  archive # <<>> =>
                  /\ open_files' # <<>>
                  /\ open_files'[1].zip = archive
                  /\ open_files'[1].dir = Central(archive).entries
        /\ (last'.op \in {"getattr", "lookup"} /\ ReadableFile(TargetPath')) =>
              /\ last'.reply.ok
              /\ last'.reply.attrs.kind = "RegularFile" ]_vars

\* the archive that failed to parse was replaced, and its member is found
C13_Witness ==
    /\ host.fixed
    /\ Did("lookup") /\ TargetPath = DataDir \o <<BZip, <<"g">> >>
    /\ last.reply.ok /\ last.reply.attrs.kind = "RegularFile"
    /\ open_files[1].zip = DataDir \o <<BZip>>

----------------------------------------------------------------------------
(* C14 *)

\* the last upcall read a whole file: from offset 0, at least its length
FullRead == Did("read") /\ last.offset = 0 /\ last.size >= FileLength(TargetPath)

\* C14: the host does not change, and the reply of a getattr and of a full
\* read is the one the handler gives for that inode with nothing cached: the
\* same FileAttr and the same bytes in every reachable state, whether the
\* archive is cached, was never opened, or was evicted by other upcalls.
C14_SameResultInEveryState ==
    /\ Did("getattr") => last.reply = Reply(getattr_(tree, <<>>, last.ino))
    /\ FullRead => last.reply = Reply(read_(tree, <<>>, last.ino, last.offset, last.size))

\* a member is read in full on a mount whose two archives have both been
\* opened through a cache of one entry
C14_Witness ==
    /\ ReadOf(DataDir \o <<SZip, <<"g">> >>) /\ FullRead
    /\ last.reply.ok /\ last.reply.data = <<3>>
    /\ cache_size = 1 /\ Len(uses) = 2

----------------------------------------------------------------------------
(* Path classification on its own *)

\* component names: plain, two archive names, and names that hold ".zip"
\* without ending in it or in another case
Names ==
    { <<"a">>, SZip, CZip,
      <<"f">> \o ZipExt \o <<".", "b", "a", "k">>,
      <<"a">> \o ZipExt \o <<"p", "y">>,
      <<"s", ".", "Z", "I", "P">> }

RECURSIVE PathsOfDepth(_)
\* the paths of exactly n components below data_dir
PathsOfDepth(n) ==
    IF n = 0 THEN {DataDir}
    ELSE {Append(path, name) : path \in PathsOfDepth(n - 1), name \in Names}

InitClassify ==
    /\ tree = <<DataDir>>
    /\ open_files = <<>>
    /\ cache_size = 1
    /\ host = [entries |-> <<>>, fixed |-> FALSE, lookups |-> {}]
    /\ last = [op |-> "mount", path |-> <<>>,
               zip_paths |-> [some |-> FALSE, zip_path |-> <<>>, file_path |-> <<>>]]
    /\ uses = <<>>

\* ZipFs::get_zip_paths applied to a path
Classify ==
    \E n \in 0..MaxDepth : \E path \in PathsOfDepth(n) :
        /\ last' = [op |-> "classify", path |-> path, zip_paths |-> get_zip_paths(path)]
        /\ UNCHANGED <<tree, open_files, cache_size, host, uses>>

SpecClassify == InitClassify /\ [][Classify]_vars

----------------------------------------------------------------------------
(* C15 *)

\* the positions of the components whose name ends with ".zip"
ZipPositions(path) ==
    {i \in 1..Len(path) :
        /\ Len(path[i]) >= 4
        /\ <<path[i][Len(path[i]) - 3], path[i][Len(path[i]) - 2],
             path[i][Len(path[i]) - 1], path[i][Len(path[i])]>> = <<".", "z", "i", "p">>}

\* the claim as it stands: the split is at the first component from the
\* root that ends with ".zip", and a path without one is a host path
C15_SplitsAtFirstZip ==
    last.op = "classify" =>
        IF ZipPositions(last.path) = {} THEN ~last.zip_paths.some
        ELSE /\ last.zip_paths.some
             /\ last.zip_paths.zip_path = ArchiveOf(last.path)
             /\ last.zip_paths.file_path = InnerOf(last.path)

\* C15 (amended): the split is at the last component, scanning from the root,
\* whose name ends with ".zip" (case-sensitive suffix of the whole name): the
\* archive path is that component with all before it, the inner path is all
\* after it; scanning from the root selects the same component when the path
\* has exactly one such component; a path with none is a host path.
C15_SplitsAtLastZip ==
    last.op = "classify" =>
        LET hits == ZipPositions(last.path)
            pivot == CHOOSE i \in hits : \A j \in hits : j <= i
        IN  IF hits = {} THEN ~last.zip_paths.some
            ELSE /\ last.zip_paths.some
                 /\ last.zip_paths.zip_path = SubSeq(last.path, 1, pivot)
                 /\ last.zip_paths.file_path = SubSeq(last.path, pivot + 1, Len(last.path))
                 /\ Cardinality(hits) = 1 =>
                       /\ last.zip_paths.zip_path = ArchiveOf(last.path)
                       /\ last.zip_paths.file_path = InnerOf(last.path)

\* a path with two archive names around a plain one: the split is at the
\* second
C15_Witness ==
    /\ last.op = "classify"
    /\ last.path = DataDir \o <<SZip, <<"a">>, CZip>>
    /\ last.zip_paths.some
    /\ last.zip_paths.zip_path = last.path /\ last.zip_paths.file_path = <<>>

----------------------------------------------------------------------------
(* File handles: open, read with a handle, release *)

\* a mount with a host file and an unreadable archive
InitHandles ==
    /\ tree = <<DataDir>>
    /\ open_files = <<>>
    /\ cache_size = 1
    /\ host = [entries |-> <<BZip, PTxt>>, fixed |-> FALSE,
               lookups |-> { DataDir \o <<BZip>>, DataDir \o <<PTxt>> }]
    /\ last = [op |-> "mount", ino |-> 0, name |-> <<>>, offset |-> 0, size |-> 0,
               cap |-> 0, reply |-> NoReply]
    /\ uses = <<>>

\* Filesystem::open: ZipFs defines no open, the upcall is served by the
\* trait's provided method, which replies opened(fh = 0) whatever the flags
Open ==
    \E ino \in 1..(Len(tree) + 1) : \E flags \in {"O_RDONLY", "O_WRONLY", "O_RDWR"} :
        /\ last' = [op |-> "open", ino |-> ino, flags |-> flags, fh |-> 0,
                    reply |-> NoReply]
        /\ UNCHANGED <<tree, open_files, cache_size, host, uses>>

\* Filesystem::release: ZipFs defines no release, the provided method
\* replies ok
Release ==
    \E ino \in 1..(Len(tree) + 1) : \E fh \in 0..MaxHandle :
        /\ last' = [op |-> "release", ino |-> ino, fh |-> fh, reply |-> NoReply]
        /\ UNCHANGED <<tree, open_files, cache_size, host, uses>>

\* Filesystem::read with the handle the kernel passes: read_ takes it as
\* _fh and never looks at it
ReadHandle ==
    \E ino \in 1..(Len(tree) + 1) : \E fh \in 0..MaxHandle :
    \E offset \in 0..MaxOffset : \E size \in {1, MaxSize} :
        LET r == read_(tree, open_files, ino, offset, size)
        IN  /\ tree' = r.tree
            /\ open_files' = r.cache
            /\ last' = [op |-> "read", ino |-> ino, fh |-> fh, offset |-> offset,
                        size |-> size, reply |-> Reply(r)]
            /\ uses' = Used(Opens("read", ino, <<>>, offset))
            /\ UNCHANGED <<cache_size, host>>

NextHandles == Lookup \/ Open \/ Release \/ ReadHandle

SpecHandles == InitHandles /\ [][NextHandles]_vars

----------------------------------------------------------------------------
(* C17 *)

\* C17: an open with a write access flag is rejected with EACCES, for every
\* path, and returns no handle.
C17_WriteOpenIsEACCES ==
    (last.op = "open" /\ last.flags \in {"O_WRONLY", "O_RDWR"}) =>
        /\ ~last.reply.ok
        /\ last.reply.err = "EACCES"

----------------------------------------------------------------------------
(* C18 *)

\* C18: a read with a nonzero handle that no open has returned (open returns
\* handle 0 only) fails with EBADF and replies no data.
C18_UnknownHandleIsEBADF ==
    (last.op = "read" /\ last.fh # 0) =>
        /\ ~last.reply.ok
        /\ last.reply.err = "EBADF"

----------------------------------------------------------------------------
(* C19 *)

RECURSIVE Rounds(_, _, _, _, _)
\* the names a caller collects from readdir_ of a directory when it resumes
\* each round from the offset of the last entry it accepted, for at most n
\* rounds
Rounds(t, ino, offset, cap, n) ==
    LET r == readdir_(t, open_files, ino, offset, cap)
        names == [j \in 1..Len(r.entries) |-> r.entries[j].name]
    IN  IF n = 0 \/ ~r.ok \/ r.entries = <<>> THEN <<>>
        ELSE names \o Rounds(r.tree, ino, r.entries[Len(r.entries)].offset, cap, n - 1)

\* C19: readdir of a host directory at offset k emits the host entries from
\* number k + 1 on, entry number n with offset n, as many as the reply holds
\* and at least one while entries remain; a caller that resumes from the
\* last offset it accepted collects every host entry exactly once, in order.
C19_ResumableListing ==
    (Did("readdir") /\ HostDir(TargetPath)) =>
        LET entries == HostNode(TargetPath).entries
            out == last.reply.entries
            left == IF Len(entries) > last.offset THEN Len(entries) - last.offset ELSE 0
        IN  /\ last.reply.ok
            /\ Len(out) = (IF last.cap < left THEN last.cap ELSE left)
            /\ \A j \in 1..Len(out) :
                  /\ out[j].offset = last.offset + j
                  /\ out[j].name = entries[last.offset + j]
            /\ Rounds(tree, last.ino, 0, last.cap, Len(entries) + 1) = entries

\* the listing is resumed after its first entry with a reply of one entry
C19_Witness ==
    /\ Did("readdir") /\ TargetPath = DataDir
    /\ HostNode(DataDir).entries = <<BZip, PTxt>>
    /\ last.offset = 1 /\ last.cap = 1
    /\ Len(last.reply.entries) = 1
    /\ last.reply.entries[1].offset = 2 /\ last.reply.entries[1].name = PTxt

----------------------------------------------------------------------------
(* C20 *)

\* C20: readdir of a directory of a parseable archive at offset 0 delivers
\* every child of the directory in that reply, whatever the reply holds, and
\* at any other offset it emits nothing.
C20_WholeListingInOneReply ==
    (Did("readdir") /\ AtArchive(TargetPath) /\ Parseable(TargetPath)) =>
        /\ last.reply.ok
        /\ last.offset = 0 =>
              Children(ArchiveOf(TargetPath), InnerOf(TargetPath)) \subseteq Emitted
        /\ last.offset # 0 => last.reply.entries = <<>>

----------------------------------------------------------------------------
(* C21 *)

\* the inodes of the table that resolve to that path
InodesOf(path) == {i \in 1..Len(tree) : tree[i] = path}

\* C21: getattr (and the getattr a lookup ends with) of a path at or inside
\* an archive replies the size, times and owner of the archive's host file,
\* with ino the requested inode and kind and perm one of the two overrides;
\* the size is the archive file's, not the member's.
C21_ArchiveAttrsMirrorHost ==
    ((Did("getattr") \/ Did("lookup")) /\ AtArchive(TargetPath)) =>
        LET file == HostNode(ArchiveOf(TargetPath))
            attrs == last.reply.attrs
        IN  /\ last.reply.ok
            /\ attrs.size = Len(file.bytes)
            /\ attrs.mtime = file.mtime
            /\ attrs.uid = file.uid
            /\ attrs.ino \in InodesOf(TargetPath)
            /\ Did("getattr") => attrs.ino = last.ino
            /\ <<attrs.kind, attrs.perm>> \in
                  {<<"Directory", DirPerm>>, <<"RegularFile", FilePerm>>}

\* a member of two bytes is reported with the seven bytes of its archive
C21_Witness ==
    /\ Did("getattr") /\ TargetPath = DataDir \o <<SZip, <<"d">>, <<"f">> >>
    /\ last.reply.ok /\ last.reply.attrs.kind = "RegularFile"
    /\ last.reply.attrs.size = 7 /\ last.reply.attrs.mtime = 11

----------------------------------------------------------------------------
(* C22 *)

\* C22: every child name readdir emits for a directory inside an archive has
\* the kind getattr reports for the child's path (RegularFile exactly for a
\* readable member file) and the inode of the child's path.
C22_ReaddirAgreesWithGetattr ==
    (Did("readdir") /\ InArchive(TargetPath) /\ Parseable(TargetPath) /\ last.reply.ok) =>
        \A i \in 1..Len(last.reply.entries) :
            LET e == last.reply.entries[i]
                child == Append(TargetPath, e.name)
            IN  e.name # <<>> =>
                  /\ e.kind = (IF ReadableFile(child) THEN "RegularFile" ELSE "Directory")
                  /\ e.ino \in InodesOf(child)

----------------------------------------------------------------------------
(* C24 *)

----------------------------------------------------------------------------
(* C25 *)

\* C25: a lookup that replies ENOENT, and a getattr, read or readdir of an
\* unknown inode, leave the inode table and the cache as they were.
C25_ErrorLeavesState ==
    [][ ( \/ last'.op = "lookup" /\ ~last'.reply.ok /\ last'.reply.err = "ENOENT"
          \/ last'.op \in {"getattr", "read", "readdir"} /\ last'.ino \notin 1..Len(tree) )
        => (tree' = tree /\ open_files' = open_files) ]_vars

----------------------------------------------------------------------------
(* The listing of an archive over the orders of its name table *)

\* member names of the listed archive: two files and the entry of directory
\* d, a file at the root, a file of another directory
MemberNames ==
    { <<"d", "/", "f">>, <<"d", "/", "h">>, <<"d", "/">>, <<"g">>, <<"k", "/", "x">> }

RECURSIVE NameTables(_)
\* the name tables of exactly n distinct names, in every order
NameTables(n) ==
    IF n = 0 THEN {<<>>}
    ELSE UNION { {Append(table, name) :
                     name \in MemberNames \ {table[i] : i \in 1..Len(table)}} :
                 table \in NameTables(n - 1) }

\* a mount whose archive and its directory d have inodes
InitListing ==
    /\ tree = <<DataDir, DataDir \o <<SZip>>, DataDir \o <<SZip, <<"d">> >> >>
    /\ open_files = <<>>
    /\ cache_size = 1
    /\ host = [entries |-> <<SZip>>, fixed |-> FALSE, lookups |-> {}]
    /\ last = [op |-> "mount", ino |-> 0, names |-> <<>>, entries |-> <<>>]
    /\ uses = <<>>

\* readdir_zip at offset 0 on an archive that parsed to the given name
\* table: the names are collected, deduplicated, sorted and added
ListArchive ==
    \E n \in 0..MaxNames : \E names \in NameTables(n) : \E ino \in 2..3 :
        LET zip_path == DataDir \o <<SZip>>
            archive == [key |-> 2, zip |-> zip_path, pos |-> 0,
                        dir |-> [i \in 1..Len(names) |->
                                   [name |-> names[i], method |-> "Stored", data_start |-> 0,
                                    compressed_size |-> 0, size |-> 0, encrypted |-> FALSE]]]
            file_path == SubSeq(tree[ino], Len(zip_path) + 1, Len(tree[ino]))
            loop == ZipEntries(ChildNames(archive, file_path), 1, tree, <<>>, MaxReply, ino,
                               archive, zip_path)
        IN  /\ tree' = loop.tree
            /\ last' = [op |-> "readdir", ino |-> ino, names |-> names,
                        entries |-> loop.entries]
            /\ UNCHANGED <<open_files, cache_size, host, uses>>

SpecListing == InitListing /\ [][ListArchive]_vars

----------------------------------------------------------------------------
(* C23 *)

\* C23: whatever the order of the names in the archive's name table, the
\* listing of a directory emits no child name twice.
C23_ChildOnce ==
    last.op = "readdir" =>
        \A i, j \in 1..Len(last.entries) :
            last.entries[i].name = last.entries[j].name => i = j

====
